---- MODULE Spec2Model ----
(***************************************************************************)
(* The shutterBox cover platform (cover.py): the fetch helper _get, the    *)
(* platform setup, and the two cover entities with their update cycle,     *)
(* their commands and their derived properties.                            *)
(*                                                                         *)
(* A coroutine of the platform suspends only inside _get (lines 51-52),    *)
(* and nothing of the entity changes between those two awaits, so a call   *)
(* is two steps: the step that runs up to the request, and the step that   *)
(* resumes with the request's outcome and runs the caller to its end.      *)
(***************************************************************************)
EXTENDS Integers, Sequences, FiniteSets, Bags, TLC

VARIABLES
    setup,          \* async_setup_platform: its position and its locals
    devices,        \* the entities handed to async_add_devices, in order
    logged,         \* the errors setup has logged
    _state,         \* the entity's snapshot (self._state)
    _available,     \* the entity's flag (self._available)
    tasks,          \* the entity's coroutines suspended in _get, a bag
    lastGet,        \* history: the last call of _get by setup that ended
    lastUpdate,     \* history: the last async_update that completed
    lastCommand     \* history: the last command that ended, and updates since

vars == <<setup, devices, logged, _state, _available, tasks, lastGet, lastUpdate, lastCommand>>

(***************************************************************************)
(* Bounds of the model and constants of the program.                       *)
(***************************************************************************)
MaxTasks == 2
MaxState == 2
MaxControlType == 8
MaxTimeout == 2
DEFAULT_TIMEOUT == 10
FULL_SCALE == 100
CLOSED_THRESHOLD == 95
STATE_OPENING == 1
STATE_CLOSING == 0

(***************************************************************************)
(* Python values.  None is Python's None (and JSON's null); an optional    *)
(* argument is the empty tuple or a one-element tuple.                     *)
(***************************************************************************)
None == [t |-> "None"]
EmptyDict == [t |-> "dict", keys |-> {}]
JsonList == [t |-> "list"]

\* A well-formed "shutter" object of /api/shutter/state.
Shutter(s, p, tl) == [t |-> "dict", keys |-> {"state", "currentPos"}, state |-> s, currentPos |-> [position |-> p, tilt |-> tl]]

\* A response object {"shutter": sh}, and one with other keys only.
ShutterResponse(sh) == [t |-> "dict", keys |-> {"shutter"}, shutter |-> sh]
OtherResponse == [t |-> "dict", keys |-> {"device"}]

\* Python truthiness of a decoded JSON value: None and {} are false.
Truthy(v) == v.t = "list" \/ (v.t = "dict" /\ v.keys /= {})

\* dict.get(key): the value, or None when the key is missing.
DictGet(d, key) == IF key \in d.keys THEN d[key] ELSE None

States == 0..MaxState
Positions == 0..FULL_SCALE

\* The raw positions and the raw tilt the device reports in the model of the
\* entity's life, and the positions the host requests there: the open end of
\* the scale, which reads as false, and the closed threshold.
RawSample == {0, CLOSED_THRESHOLD}
TiltSample == {CLOSED_THRESHOLD}
RequestSample == {FULL_SCALE - r : r \in RawSample}
\* The raw tilts the device reports where its positions span the scale.
TiltEdges == {0, CLOSED_THRESHOLD - 1, CLOSED_THRESHOLD}

Shutters(S, P, T) == {Shutter(s, p, tl) : s \in S, p \in P, tl \in T}

\* The bodies the device can answer with, decoded.
JsonValues(shutters) == {None, JsonList, EmptyDict, OtherResponse, ShutterResponse(None), ShutterResponse(EmptyDict)} \cup {ShutterResponse(sh) : sh \in shutters}

\* What a request can end in: a body that decodes, or one of the failures.
Ok(json) == [kind |-> "ok", json |-> json]
Failures == {[kind |-> "network_error"], [kind |-> "timeout"], [kind |-> "malformed_json"]}
Outcomes(shutters) == {Ok(j) : j \in JsonValues(shutters)} \cup Failures

(***************************************************************************)
(* The fetch helper.                                                       *)
(***************************************************************************)
\* Lines 47-51: the helper builds the resource and issues its GET; the call
\* is then suspended on the request.  trips counts the GETs it has issued.
_get_request(url) == [url |-> url, trips |-> 1]

\* _get with a narrower except clause: a body that is no JSON is not caught.
_get_ValueErrorEscapes(outcome) == IF outcome.kind = "ok" THEN [raised |-> FALSE, value |-> outcome.json] ELSE [raised |-> outcome.kind = "malformed_json", value |-> None]

\* Lines 52-61: the request's outcome becomes the helper's result.  A body
\* that decodes is returned decoded; every exception is caught and logged,
\* and the helper falls off its end, returning None.
_get(outcome) == IF outcome.kind = "ok" THEN [raised |-> FALSE, value |-> outcome.json] ELSE [raised |-> FALSE, value |-> None]

(***************************************************************************)
(* The entities' pure parts.                                               *)
(***************************************************************************)
Segmented == "ShutterBoxSegmentedShutter"
Tilt == "ShutterBoxTiltShutter"

\* An optional number: Python's None, or the number.
Absent == <<>>
Some(n) == <<n>>

\* _invert_position that does not invert.
_invert_position_Identity(raw_position) == raw_position

_invert_position(raw_position) == -raw_position + FULL_SCALE

is_opening(st) == IF Truthy(st) THEN DictGet(st, "state") = STATE_OPENING ELSE FALSE

\* is_closing that tests for "not opening".
is_closing_NotOpening(st) == IF Truthy(st) THEN DictGet(st, "state") /= STATE_OPENING ELSE FALSE

is_closing(st) == IF Truthy(st) THEN DictGet(st, "state") = STATE_CLOSING ELSE FALSE

_check_is_closed_segmented(st) == IF Truthy(st) THEN DictGet(st, "currentPos").position >= CLOSED_THRESHOLD ELSE FALSE

\* The tilt entity's check with "or" for "and".
_check_is_closed_tilt_Or(st) == IF Truthy(st) THEN DictGet(st, "currentPos").position >= CLOSED_THRESHOLD \/ DictGet(st, "currentPos").tilt >= CLOSED_THRESHOLD ELSE FALSE

_check_is_closed_tilt(st) == IF Truthy(st) THEN DictGet(st, "currentPos").position >= CLOSED_THRESHOLD /\ DictGet(st, "currentPos").tilt >= CLOSED_THRESHOLD ELSE FALSE

is_closed(cls, st) == IF cls = Tilt THEN _check_is_closed_tilt(st) ELSE _check_is_closed_segmented(st)

\* current_cover_position that tests the position against None, not for truth.
current_cover_position_ZeroReported(st) == IF Truthy(st) THEN Some(_invert_position(DictGet(st, "currentPos").position)) ELSE Absent

current_cover_position(st) == IF Truthy(st) /\ DictGet(st, "currentPos").position /= 0 THEN Some(_invert_position(DictGet(st, "currentPos").position)) ELSE Absent

current_cover_tilt_position(st) == IF Truthy(st) /\ DictGet(st, "currentPos").tilt /= 0 THEN Some(_invert_position(DictGet(st, "currentPos").tilt)) ELSE Absent

_get_supported_features_segmented == {"SUPPORT_OPEN", "SUPPORT_CLOSE", "SUPPORT_STOP", "SUPPORT_SET_POSITION"}

_get_supported_features_tilt == _get_supported_features_segmented \cup {"SUPPORT_OPEN_TILT", "SUPPORT_CLOSE_TILT", "SUPPORT_SET_TILT_POSITION"}

supported_features(cls) == IF cls = Tilt THEN _get_supported_features_tilt ELSE _get_supported_features_segmented

\* Lines 171-176 and 183-185: the "shutter" member of a truthy response.  A
\* truthy response that is no object has no get: AttributeError.
ShutterOf(response) == IF ~Truthy(response) THEN [raised |-> FALSE, value |-> None] ELSE IF response.t /= "dict" THEN [raised |-> TRUE, value |-> None] ELSE [raised |-> FALSE, value |-> DictGet(response, "shutter")]

_get_shutter_state(outcome) == IF _get(outcome).raised THEN [raised |-> TRUE, value |-> None] ELSE ShutterOf(_get(outcome).value)

\* Lines 178-182: the path of a command, with its parameter when it has one.
_send_shutter_command(command, parameter) == IF parameter /= Absent THEN _get_request("/s/" \o command \o "/" \o ToString(parameter[1])) ELSE _get_request("/s/" \o command)

(***************************************************************************)
(* Platform setup (lines 76-96).                                           *)
(***************************************************************************)
ControlType == <<"SEGMENTED_SHUTTER", "APPLIANCE_WITHOUT_POSITIONING", "TILT_SHUTTER", "WINDOW_OPENER", "MATERIAL_SHUTTER", "AWNING", "SCREEN">>

DeviceResponse == [t |-> "dict", keys |-> {"device"}, device |-> [t |-> "dict", keys |-> {"deviceName"}, deviceName |-> "shutterBox"]]
SettingsResponse(n) == [t |-> "dict", keys |-> {"settings"}, settings |-> [t |-> "dict", keys |-> {"shutter"}, shutter |-> [controlType |-> n]]]

SetupOutcomes == Failures \cup {Ok(None), Ok(JsonList), Ok(EmptyDict), Ok(DeviceResponse)} \cup {Ok(SettingsResponse(n)) : n \in 0..MaxControlType}

NoRequest == [url |-> "", trips |-> 0]
NoGet == [outcome |-> [kind |-> "none"]]
NoUpdate == [outcome |-> [kind |-> "none"]]
NoCommand == [method |-> "none"]

\* Lines 64-67 and 70-73: the member of the response; get on None, or on a
\* value that is no object, is an AttributeError.
Member(outcome, key) == IF _get(outcome).raised \/ _get(outcome).value.t /= "dict" THEN [raised |-> TRUE, value |-> None] ELSE [raised |-> FALSE, value |-> DictGet(_get(outcome).value, key)]

_get_shutter_info(outcome) == Member(outcome, "device")

_get_shutter_settings(outcome) == Member(outcome, "settings")

\* Lines 102-107: a new entity's fields other than _state and _available.
ShutterBoxSegmentedShutter(name, timeout) == [cls |-> Segmented, _name |-> name, _timeout |-> timeout]

ShutterBoxTiltShutter(name, timeout) == [cls |-> Tilt, _name |-> name, _timeout |-> timeout]

\* Setup without the check of line 85: every other type gets the tilt entity.
Registered_Unchecked(control_type, name, timeout) == [devices |-> <<IF control_type = "SEGMENTED_SHUTTER" THEN ShutterBoxSegmentedShutter(name, timeout) ELSE ShutterBoxTiltShutter(name, timeout)>>, logged |-> {}]

\* Lines 85-96: the entities setup registers for a control type, and the
\* errors it logs.
Registered(control_type, name, timeout) == IF control_type \notin {"SEGMENTED_SHUTTER", "TILT_SHUTTER"} THEN [devices |-> <<>>, logged |-> {"Only segmented shutter and tilt shutter modes are currently supported"}] ELSE [devices |-> <<IF control_type = "SEGMENTED_SHUTTER" THEN ShutterBoxSegmentedShutter(name, timeout) ELSE ShutterBoxTiltShutter(name, timeout)>>, logged |-> {}]

\* History: a call of _get that has ended, with the GETs it issued.
Ended(outcome, req) == [outcome |-> outcome, ret |-> _get(outcome), trips |-> req.trips]

\* Lines 77-81 or 77-83: the configuration is read, and the first request
\* issued: the identity when no name is configured, else the settings.
async_setup_platform ==
    /\ setup.pc = "start"
    /\ LET timeout == IF setup.timeout = 0 THEN DEFAULT_TIMEOUT ELSE setup.timeout
       IN  setup' = IF setup.name = ""
                    THEN [setup EXCEPT !.pc = "info", !.timeout = timeout, !.get = _get_request("/api/device/state")]
                    ELSE [setup EXCEPT !.pc = "settings", !.timeout = timeout, !.get = _get_request("/api/settings/state")]
    /\ UNCHANGED <<devices, logged, _state, _available, tasks, lastGet, lastUpdate, lastCommand>>

\* Lines 81-83: the device's identity arrives; its name is taken, and the
\* settings are requested.  A missing identity is an AttributeError.
async_setup_platform_info(outcome) ==
    /\ setup.pc = "info"
    /\ LET shutter_info == _get_shutter_info(outcome)
       IN  setup' = IF shutter_info.raised \/ shutter_info.value = None
                    THEN [setup EXCEPT !.pc = "raised", !.get = NoRequest]
                    ELSE [setup EXCEPT !.pc = "settings", !.name = shutter_info.value.deviceName, !.get = _get_request("/api/settings/state")]
    /\ lastGet' = Ended(outcome, setup.get)
    /\ UNCHANGED <<devices, logged, _state, _available, tasks, lastUpdate, lastCommand>>

\* Lines 83-96: the settings arrive; the control type picks the entity.
\* Missing settings are a TypeError, an unknown control type a ValueError.
async_setup_platform_settings(outcome) ==
    /\ setup.pc = "settings"
    /\ lastGet' = Ended(outcome, setup.get)
    /\ LET shutter_settings == _get_shutter_settings(outcome)
       IN  IF shutter_settings.raised \/ shutter_settings.value = None
           THEN /\ setup' = [setup EXCEPT !.pc = "raised", !.get = NoRequest]
                /\ UNCHANGED <<devices, logged>>
           ELSE LET n == shutter_settings.value.shutter.controlType
                IN  IF n \notin DOMAIN ControlType
                    THEN /\ setup' = [setup EXCEPT !.pc = "raised", !.get = NoRequest, !.controlType = n]
                         /\ UNCHANGED <<devices, logged>>
                    ELSE /\ setup' = [setup EXCEPT !.pc = "done", !.get = NoRequest, !.controlType = n]
                         /\ devices' = devices \o Registered(ControlType[n], setup.name, setup.timeout).devices
                         /\ logged' = logged \cup Registered(ControlType[n], setup.name, setup.timeout).logged
    /\ UNCHANGED <<_state, _available, tasks, lastUpdate, lastCommand>>

(***************************************************************************)
(* The entity's coroutines.                                                *)
(***************************************************************************)
Suspended(method, kwargs, req) == [method |-> method, kwargs |-> kwargs, url |-> req.url, trips |-> req.trips]

\* The host can call a method of the registered entity, an instance of one
\* of cls, while fewer than cap of its calls are outstanding.
CanCall(cap, cls) == devices /= <<>> /\ devices[1].cls \in cls /\ BagCardinality(tasks) < cap

\* Lines 161-162 and 171-173: an update runs up to its request.
async_update(cap) ==
    /\ CanCall(cap, {Segmented, Tilt})
    /\ tasks' = tasks (+) SetToBag({Suspended("async_update", <<>>, _get_request("/api/shutter/state"))})
    /\ UNCHANGED <<setup, devices, logged, _state, _available, lastGet, lastUpdate, lastCommand>>

\* Lines 148-159 and 209-217: a command runs up to its request.
async_open_cover(cap) ==
    /\ CanCall(cap, {Segmented, Tilt})
    /\ tasks' = tasks (+) SetToBag({Suspended("async_open_cover", <<>>, _send_shutter_command("u", Absent))})
    /\ UNCHANGED <<setup, devices, logged, _state, _available, lastGet, lastUpdate, lastCommand>>

async_close_cover(cap) ==
    /\ CanCall(cap, {Segmented, Tilt})
    /\ tasks' = tasks (+) SetToBag({Suspended("async_close_cover", <<>>, _send_shutter_command("d", Absent))})
    /\ UNCHANGED <<setup, devices, logged, _state, _available, lastGet, lastUpdate, lastCommand>>

async_stop_cover(cap) ==
    /\ CanCall(cap, {Segmented, Tilt})
    /\ tasks' = tasks (+) SetToBag({Suspended("async_stop_cover", <<>>, _send_shutter_command("s", Absent))})
    /\ UNCHANGED <<setup, devices, logged, _state, _available, lastGet, lastUpdate, lastCommand>>

async_set_cover_position(cap, position) ==
    /\ CanCall(cap, {Segmented, Tilt})
    /\ tasks' = tasks (+) SetToBag({Suspended("async_set_cover_position", <<position>>, _send_shutter_command("p", Some(_invert_position(position))))})
    /\ UNCHANGED <<setup, devices, logged, _state, _available, lastGet, lastUpdate, lastCommand>>

async_open_cover_tilt(cap) ==
    /\ CanCall(cap, {Tilt})
    /\ tasks' = tasks (+) SetToBag({Suspended("async_open_cover_tilt", <<>>, _send_shutter_command("t", Some(0)))})
    /\ UNCHANGED <<setup, devices, logged, _state, _available, lastGet, lastUpdate, lastCommand>>

async_close_cover_tilt(cap) ==
    /\ CanCall(cap, {Tilt})
    /\ tasks' = tasks (+) SetToBag({Suspended("async_close_cover_tilt", <<>>, _send_shutter_command("t", Some(FULL_SCALE)))})
    /\ UNCHANGED <<setup, devices, logged, _state, _available, lastGet, lastUpdate, lastCommand>>

async_set_cover_tilt_position(cap, tilt_position) ==
    /\ CanCall(cap, {Tilt})
    /\ tasks' = tasks (+) SetToBag({Suspended("async_set_cover_tilt_position", <<tilt_position>>, _send_shutter_command("t", Some(_invert_position(tilt_position))))})
    /\ UNCHANGED <<setup, devices, logged, _state, _available, lastGet, lastUpdate, lastCommand>>

\* An update that tests the snapshot against None, not for truth.
Updated_EmptyKept(shutter_state) == IF shutter_state /= None THEN [_state |-> shutter_state, _available |-> TRUE] ELSE [_state |-> None, _available |-> FALSE]

\* An update that clears the snapshot and leaves the flag set.
Updated_FlagNotCleared(shutter_state) == IF Truthy(shutter_state) THEN [_state |-> shutter_state, _available |-> TRUE] ELSE [_state |-> None, _available |-> TRUE]

\* Lines 164-169: the snapshot and the flag an update leaves.
Updated(shutter_state) == IF Truthy(shutter_state) THEN [_state |-> shutter_state, _available |-> TRUE] ELSE [_state |-> None, _available |-> FALSE]

\* Lines 162-169: the request of an update ends, and the update runs to its
\* end.  An exception of _get_shutter_state leaves it before line 164.
async_update_return(call, outcome) ==
    /\ call.method = "async_update"
    /\ tasks' = tasks (-) SetToBag({call})
    /\ LET shutter_state == _get_shutter_state(outcome)
       IN  IF shutter_state.raised
           THEN UNCHANGED <<_state, _available, lastUpdate, lastCommand>>
           ELSE /\ _state' = Updated(shutter_state.value)._state
                /\ _available' = Updated(shutter_state.value)._available
                /\ lastUpdate' = [outcome |-> outcome, was_available |-> _available]
                /\ lastCommand' = IF lastCommand = NoCommand THEN NoCommand ELSE [lastCommand EXCEPT !.updated = TRUE]
    /\ UNCHANGED <<setup, devices, logged, lastGet>>

\* A command that keeps the snapshot its response carries.
_send_shutter_command_return_Stores(call, outcome) ==
    /\ call.method /= "async_update"
    /\ tasks' = tasks (-) SetToBag({call})
    /\ lastCommand' = IF call.method = "async_set_cover_position" THEN [method |-> call.method, kwargs |-> call.kwargs, url |-> call.url, trips |-> call.trips, quiet |-> \A c \in BagToSet(tasks) : c.method /= "async_update", updated |-> FALSE] ELSE lastCommand
    /\ _state' = IF ShutterOf(_get(outcome).value).raised THEN _state ELSE Updated(ShutterOf(_get(outcome).value).value)._state
    /\ _available' = IF ShutterOf(_get(outcome).value).raised THEN _available ELSE Updated(ShutterOf(_get(outcome).value).value)._available
    /\ UNCHANGED <<setup, devices, logged, lastGet, lastUpdate>>

\* Lines 182-185: the request of a command ends; its response is dropped.
\* History keeps the last set-position command: whether no update was out
\* when it ended, and whether an update has ended since.
_send_shutter_command_return(call, outcome) ==
    /\ call.method /= "async_update"
    /\ tasks' = tasks (-) SetToBag({call})
    /\ lastCommand' = IF call.method = "async_set_cover_position" THEN [method |-> call.method, kwargs |-> call.kwargs, url |-> call.url, trips |-> call.trips, quiet |-> \A c \in BagToSet(tasks) : c.method /= "async_update", updated |-> FALSE] ELSE lastCommand
    /\ UNCHANGED <<setup, devices, logged, _state, _available, lastGet, lastUpdate>>

(***************************************************************************)
(* SpecSetup: the platform's setup, from its configuration to its end.     *)
(***************************************************************************)
InitSetup ==
    /\ setup \in {[pc |-> "start", name |-> n, timeout |-> t, controlType |-> 0, get |-> NoRequest] : n \in {"", "blind"}, t \in 0..MaxTimeout}
    /\ devices = <<>>
    /\ logged = {}
    /\ _state = None
    /\ _available = FALSE
    /\ tasks = EmptyBag
    /\ lastGet = NoGet
    /\ lastUpdate = NoUpdate
    /\ lastCommand = NoCommand

NextSetup ==
    \/ async_setup_platform
    \/ \E outcome \in SetupOutcomes : async_setup_platform_info(outcome)
    \/ \E outcome \in SetupOutcomes : async_setup_platform_settings(outcome)

SpecSetup == InitSetup /\ [][NextSetup]_vars

(***************************************************************************)
(* Spec: the life of a registered entity: updates and commands, whose      *)
(* requests may be outstanding together.                                   *)
(***************************************************************************)
LifeShutters == Shutters(States, RawSample, TiltSample)
LifeOutcomes == Outcomes(LifeShutters)

\* The states setup ends in with an entity registered (name configured,
\* timeout defaulted).
SetUp(n) == [pc |-> "done", name |-> "blind", timeout |-> DEFAULT_TIMEOUT, controlType |-> n, get |-> NoRequest]

Init ==
    /\ \E n \in {1, 3} :
        /\ setup = SetUp(n)
        /\ devices = Registered(ControlType[n], "blind", DEFAULT_TIMEOUT).devices
        /\ lastGet = Ended(Ok(SettingsResponse(n)), _get_request("/api/settings/state"))
    /\ logged = {}
    /\ _state = None
    /\ _available = FALSE
    /\ tasks = EmptyBag
    /\ lastUpdate = NoUpdate
    /\ lastCommand = NoCommand

Next ==
    \/ async_update(MaxTasks)
    \/ async_open_cover(MaxTasks)
    \/ async_close_cover(MaxTasks)
    \/ async_stop_cover(MaxTasks)
    \/ \E position \in RequestSample : async_set_cover_position(MaxTasks, position)
    \/ async_open_cover_tilt(MaxTasks)
    \/ async_close_cover_tilt(MaxTasks)
    \/ \E tilt_position \in RequestSample : async_set_cover_tilt_position(MaxTasks, tilt_position)
    \/ \E call \in BagToSet(tasks), outcome \in LifeOutcomes : async_update_return(call, outcome)
    \/ \E call \in BagToSet(tasks), outcome \in LifeOutcomes : _send_shutter_command_return(call, outcome)

Spec == Init /\ [][Next]_vars

(***************************************************************************)
(* SpecFull: the entity over the device's whole scale, one call at a time: *)
(* updates that fetch any raw position, and the commands, their arguments  *)
(* ranging over the whole scale, up to their requests.                     *)
(***************************************************************************)
\* The motion state plays no part in what SpecFull is for: one value of it.
FullShutters == Shutters({STATE_OPENING}, Positions, TiltEdges)
FullOutcomes == Outcomes(FullShutters)

NextFull ==
    \/ async_update(1)
    \/ \E call \in BagToSet(tasks), outcome \in FullOutcomes : async_update_return(call, outcome)
    \/ async_open_cover(1)
    \/ async_close_cover(1)
    \/ async_stop_cover(1)
    \/ \E position \in Positions : async_set_cover_position(1, position)
    \/ async_open_cover_tilt(1)
    \/ async_close_cover_tilt(1)
    \/ \E tilt_position \in Positions : async_set_cover_tilt_position(1, tilt_position)

SpecFull == Init /\ [][NextFull]_vars

(***************************************************************************)
(* The properties.                                                         *)
(***************************************************************************)
\* The entity registered, and what the host reads of it.
cls == devices[1].cls
Position == _state.currentPos.position
TiltPosition == _state.currentPos.tilt

\* An update fetched a non-empty response with a non-empty shutter object.
Fetched(outcome) == outcome.kind = "ok" /\ outcome.json.t = "dict" /\ Truthy(outcome.json) /\ Truthy(DictGet(outcome.json, "shutter"))

\* C1: in every state of the entity, _available is true iff _state is
\* present, and that is so iff the update that completed last fetched a
\* non-empty response carrying a non-empty shutter object.
C1_AvailableIffSnapshot ==
    /\ _available <=> _state /= None
    /\ _available <=> Fetched(lastUpdate.outcome)

\* An available entity, updated before, with an update and a command out.
C1_Witness ==
    /\ _available /\ _state /= None /\ lastUpdate.was_available
    /\ \E c \in BagToSet(tasks) : c.method = "async_update"
    /\ \E c \in BagToSet(tasks) : c.method = "async_stop_cover"

\* C2: once an update has failed (network error, timeout, malformed JSON)
\* the entity is unavailable, is_opening, is_closing and is_closed are false
\* and the position and the tilt position are absent; once an update has
\* succeeded the entity is available with the snapshot that update fetched.
C2_FailsAndRecoversInOneCycle ==
    /\ lastUpdate.outcome \in Failures =>
        /\ ~_available
        /\ ~is_opening(_state) /\ ~is_closing(_state) /\ ~is_closed(cls, _state)
        /\ current_cover_position(_state) = Absent
        /\ current_cover_tilt_position(_state) = Absent
    /\ Fetched(lastUpdate.outcome) =>
        /\ _available
        /\ _state = lastUpdate.outcome.json.shutter

\* An entity that was available when the update that failed ended.
C2_Witness == lastUpdate.outcome \in Failures /\ lastUpdate.was_available

\* A step of a command: a call that is no update starts or ends.
CommandStep == \E c \in BagToSet(tasks) \cup BagToSet(tasks') : c.method /= "async_update" /\ CopiesIn(c, tasks') /= CopiesIn(c, tasks)
UpdateEnds == \E c \in BagToSet(tasks) : c.method = "async_update" /\ CopiesIn(c, tasks') = CopiesIn(c, tasks) - 1

\* C3: a step of a command leaves _state and _available as they were, and
\* the command has one request out from its start to its end, which issues
\* no other; _state and _available change only where an update ends.
C3_CommandsLeaveSnapshot ==
    [][/\ CommandStep =>
            /\ UNCHANGED <<_state, _available>>
            /\ \A c \in BagToSet(tasks') : c.trips = 1
            /\ \/ \E c \in BagToSet(tasks') : c.method /= "async_update" /\ c.trips = 1 /\ tasks' = tasks (+) SetToBag({c})
               \/ \E c \in BagToSet(tasks) : c.method /= "async_update" /\ c.trips = 1 /\ tasks' = tasks (-) SetToBag({c})
       /\ <<_state, _available>>' /= <<_state, _available>> => UpdateEnds]_vars

\* A set-position command has ended, with no update since, on an entity
\* that is available.
C3_Witness == lastCommand /= NoCommand /\ ~lastCommand.updated /\ lastCommand.trips = 1 /\ _available

\* C4: a call of _get that has ended raised nothing, returned the decoded
\* body when there was one and None otherwise, and issued one GET; a call
\* that waits for its response has issued one GET.
C4_GetNeverRaises ==
    /\ lastGet /= NoGet =>
        /\ ~lastGet.ret.raised
        /\ lastGet.ret.value = (IF lastGet.outcome.kind = "ok" THEN lastGet.outcome.json ELSE None)
        /\ lastGet.trips = 1
    /\ setup.pc \in {"info", "settings"} => setup.get.trips = 1

\* Setup went on to its second request after a first that was answered, and
\* that one ended in a body that is no JSON.
C4_Witness == setup.pc = "raised" /\ setup.name = "shutterBox" /\ lastGet.outcome.kind = "malformed_json" /\ lastGet.ret.value = None

\* C5: a set-position call for p requests /s/p/(100-p), a set-tilt call for
\* t requests /s/t/(100-t), and inverting twice gives the argument back.
C5_WriteInversion ==
    \A c \in BagToSet(tasks) :
        /\ c.method = "async_set_cover_position" => c.url = "/s/p/" \o ToString(100 - c.kwargs[1])
        /\ c.method = "async_set_cover_tilt_position" => c.url = "/s/t/" \o ToString(100 - c.kwargs[1])
        /\ c.kwargs /= <<>> => _invert_position(_invert_position(c.kwargs[1])) = c.kwargs[1]

\* Position 40 is requested as /s/p/60.
C5_Witness == \E c \in BagToSet(tasks) : c.method = "async_set_cover_position" /\ c.kwargs = <<40>> /\ c.url = "/s/p/60"

\* C6: current_cover_position is absent exactly when there is no snapshot
\* or the raw position is zero, and is 100 - r for a raw position r of 1..100.
C6_PositionRead ==
    /\ current_cover_position(_state) = Absent <=> (_state = None \/ Position = 0)
    /\ (_state /= None /\ Position \in 1..100) => current_cover_position(_state) = Some(100 - Position)

\* A snapshot of raw position 30 reads as 70.
C6_Witness == _state /= None /\ Position = 30 /\ current_cover_position(_state) = Some(70)

\* C7: is_opening and is_closing are never both true; state 1 is opening
\* and not closing, state 0 closing and not opening, and any other state,
\* or no snapshot, neither.
C7_OpeningClosingExclusive ==
    /\ ~(is_opening(_state) /\ is_closing(_state))
    /\ (_state /= None /\ _state.state = 1) => (is_opening(_state) /\ ~is_closing(_state))
    /\ (_state /= None /\ _state.state = 0) => (is_closing(_state) /\ ~is_opening(_state))
    /\ (_state = None \/ _state.state \notin {0, 1}) => (~is_opening(_state) /\ ~is_closing(_state))

\* A snapshot whose state is neither 0 nor 1, while a call is out.
C7_Witness == _state /= None /\ _state.state = 2 /\ ~is_closing(_state) /\ tasks /= EmptyBag

\* C8: the segmented entity is closed iff it has a snapshot of raw position
\* >= 95; the tilt entity iff it has one of raw position >= 95 and raw tilt
\* >= 95; neither is closed with no snapshot.
C8_IsClosed ==
    /\ cls = Segmented => (is_closed(cls, _state) <=> (_state /= None /\ Position >= 95))
    /\ cls = Tilt => (is_closed(cls, _state) <=> (_state /= None /\ Position >= 95 /\ TiltPosition >= 95))
    /\ _state = None => ~is_closed(cls, _state)

\* A tilt entity lowered to 95 whose slats are at 94 is not closed.
C8_Witness == cls = Tilt /\ _state /= None /\ Position = 95 /\ TiltPosition = 94 /\ ~is_closed(cls, _state)

\* C9: setup registers at most one entity; control type 1 registers one
\* segmented entity with open, close, stop and set-position and no tilt
\* capability; 3 one tilt entity with the three tilt capabilities added;
\* 2, 4, 5, 6 or 7 none, with an error logged.
C9_SetupRegistersByType ==
    /\ Len(devices) <= 1
    /\ setup.pc /= "done" => devices = <<>>
    /\ (setup.pc = "done" /\ setup.controlType = 1) =>
        /\ Len(devices) = 1 /\ cls = Segmented
        /\ supported_features(cls) = {"SUPPORT_OPEN", "SUPPORT_CLOSE", "SUPPORT_STOP", "SUPPORT_SET_POSITION"}
    /\ (setup.pc = "done" /\ setup.controlType = 3) =>
        /\ Len(devices) = 1 /\ cls = Tilt
        /\ supported_features(cls) = {"SUPPORT_OPEN", "SUPPORT_CLOSE", "SUPPORT_STOP", "SUPPORT_SET_POSITION", "SUPPORT_OPEN_TILT", "SUPPORT_CLOSE_TILT", "SUPPORT_SET_TILT_POSITION"}
    /\ (setup.pc = "done" /\ setup.controlType \in {2, 4, 5, 6, 7}) => (devices = <<>> /\ logged /= {})
    /\ setup.pc = "done" => setup.controlType \in 1..7

\* Setup has ended for a device of control type 4: nothing registered.
C9_Witness == setup.pc = "done" /\ setup.controlType = 4 /\ devices = <<>> /\ logged /= {}

\* C10: when set-position for p has been issued and has ended with no update
\* out, and an update since has succeeded and reports the raw position that
\* command carried, then current_cover_position is p.
C10_ReadBackWhatWasWritten ==
    (/\ lastCommand /= NoCommand
     /\ lastCommand.quiet /\ lastCommand.updated
     /\ _available
     /\ lastCommand.url = "/s/p/" \o ToString(Position)) => current_cover_position(_state) = Some(lastCommand.kwargs[1])

====
